---- MODULE Spec2Model ----
(***************************************************************************)
(* A model of echion's frame resolution core: the string table             *)
(* (strings.h), the frame resolver and its cache (frame.h) and the MOJO    *)
(* trace encoder and renderer facade (render.h).                           *)
(*                                                                         *)
(* Machine words (uintptr_t keys, addresses, program counters) are         *)
(* represented by the integer they denote in two's complement; every       *)
(* address of the modelled heap is small, so that the shifts of Frame::key *)
(* stay within the integers TLC represents.  An all-ones word is the       *)
(* integer -1.                                                             *)
(***************************************************************************)
EXTENDS Integers, Sequences, FiniteSets, TLC

----------------------------------------------------------------------------
(* Bounds of the model *)

\* capacity passed to init_frame_cache
Capacity == 2
\* number of records the trace sink holds before the resolver stops emitting
MaxStream == Capacity + 1

----------------------------------------------------------------------------
(* Bit operations on two's complement integers *)

RECURSIVE BitOr(_, _)
BitOr(a, b) ==
    IF a = 0 THEN b
    ELSE IF b = 0 THEN a
    ELSE IF a = -1 \/ b = -1 THEN -1
    ELSE 2 * BitOr(a \div 2, b \div 2) + (IF a % 2 = 1 \/ b % 2 = 1 THEN 1 ELSE 0)

RECURSIVE BitAnd(_, _)
BitAnd(a, b) ==
    IF a = 0 \/ b = 0 THEN 0
    ELSE IF a = -1 THEN b
    ELSE IF b = -1 THEN a
    ELSE 2 * BitAnd(a \div 2, b \div 2) + (IF a % 2 = 1 /\ b % 2 = 1 THEN 1 ELSE 0)

RECURSIVE Pow2(_)
Pow2(n) == IF n = 0 THEN 1 ELSE 2 * Pow2(n - 1)

----------------------------------------------------------------------------
(* Location tables: frame.h, _read_varint, _read_signed_varint and         *)
(* Frame::infer_location.  A table is a sequence of bytes; C's table[i] is *)
(* tbl[i + 1].  The three builds (PY_VERSION_HEX) are the generations       *)
(* "varlen" (>= 3.11, taken here as a 3.13 build, so that the branches for *)
(* 3.12 and 3.13 apply), "delta" (3.10) and "legacy" (< 3.10).             *)

Generations == {"varlen", "delta", "legacy"}

RECURSIVE VarintLoop(_, _, _, _, _)
VarintLoop(tbl, size, i, val, shift) ==
    IF (tbl[i + 1] \div 64) % 2 = 1 /\ i < size - 1
    THEN VarintLoop(tbl, size, i + 1,
                    BitOr(val, (tbl[i + 2] % 64) * Pow2(shift + 6)), shift + 6)
    ELSE [val |-> val, i |-> i]

\* _read_varint: the value read and the index of the last byte consumed
ReadVarint(tbl, size, i) ==
    IF i >= size - 1
    THEN [val |-> 0, i |-> i]
    ELSE VarintLoop(tbl, size, i + 1, tbl[i + 2] % 64, 0)

ReadSignedVarint(tbl, size, i) ==
    LET r == ReadVarint(tbl, size, i)
    IN  [val |-> IF r.val % 2 = 1 THEN -(r.val \div 2) ELSE r.val \div 2, i |-> r.i]

Location0 == [line |-> 0, line_end |-> 0, column |-> 0, column_end |-> 0]

\* One entry of the variable-length table, read at index i: the switch of
\* infer_location.  err is the LocationError thrown by an entry kind.
VarlenEntry(tbl, len, i, lineno, loc) ==
    LET code == (tbl[i + 1] \div 8) % 16
    IN  CASE code = 15 ->
               [err |-> FALSE, i |-> i, lineno |-> lineno, loc |-> loc]
          [] code = 14 ->
               LET d  == ReadSignedVarint(tbl, len, i)
                   ln == lineno + d.val
                   e  == ReadVarint(tbl, len, d.i)
                   c  == ReadVarint(tbl, len, e.i)
                   ce == ReadVarint(tbl, len, c.i)
               IN  [err |-> FALSE, i |-> ce.i, lineno |-> ln,
                    loc |-> [line |-> ln, line_end |-> ln + e.val,
                             column |-> c.val, column_end |-> ce.val]]
          [] code = 13 ->
               LET d  == ReadSignedVarint(tbl, len, i)
                   ln == lineno + d.val
               IN  [err |-> FALSE, i |-> d.i, lineno |-> ln,
                    loc |-> [line |-> ln, line_end |-> ln,
                             column |-> 0, column_end |-> 0]]
          [] code \in {10, 11, 12} ->
               IF i >= len - 2
               THEN [err |-> TRUE, i |-> i, lineno |-> lineno, loc |-> loc]
               ELSE LET ln == lineno + (code - 10)
                    IN  [err |-> FALSE, i |-> i + 2, lineno |-> ln,
                         loc |-> [line |-> ln, line_end |-> ln,
                                  column |-> 1 + tbl[i + 2],
                                  column_end |-> 1 + tbl[i + 3]]]
          [] OTHER ->
               IF i >= len - 1
               THEN [err |-> TRUE, i |-> i, lineno |-> lineno, loc |-> loc]
               ELSE LET next_byte == tbl[i + 2]
                        col == 1 + (code * 8) + ((next_byte \div 16) % 8)
                    IN  [err |-> FALSE, i |-> i + 1, lineno |-> lineno,
                         loc |-> [line |-> lineno, line_end |-> lineno,
                                  column |-> col,
                                  column_end |-> col + (next_byte % 16)]]

\* The for loop of the >= 3.11 branch, from index i with bc bytecode units
\* accumulated.  oob: a table byte at an index >= len was read.
RECURSIVE VarlenLoop(_, _, _, _, _, _, _)

\* An iteration that takes a truncated entry for the end of the table
VarlenAfterEntry_lenient(tbl, len, lasti, bc2, lineno, loc, r) ==
    IF r.err \/ bc2 > lasti
    THEN [err |-> FALSE, lineno |-> r.lineno, loc |-> r.loc, oob |-> FALSE]
    ELSE VarlenLoop(tbl, len, lasti, r.i + 1, bc2, r.lineno, r.loc)

\* the rest of one iteration, once the entry has been read as r and bc has
\* grown to bc2: the throw, the break, or the next iteration
VarlenAfterEntry(tbl, len, lasti, bc2, lineno, loc, r) ==
    IF r.err
    THEN [err |-> TRUE, lineno |-> lineno, loc |-> loc, oob |-> FALSE]
    ELSE IF bc2 > lasti
    THEN [err |-> FALSE, lineno |-> r.lineno, loc |-> r.loc, oob |-> FALSE]
    ELSE VarlenLoop(tbl, len, lasti, r.i + 1, bc2, r.lineno, r.loc)

VarlenLoop(tbl, len, lasti, i, bc, lineno, loc) ==
    IF i >= len
    THEN [err |-> FALSE, lineno |-> lineno, loc |-> loc, oob |-> FALSE]
    ELSE VarlenAfterEntry(tbl, len, lasti, bc + (tbl[i + 1] % 8) + 1, lineno, loc,
                          VarlenEntry(tbl, len, i, lineno, loc))

\* table[i] as the delta-pair and legacy loops read it: they do not check i
\* against len before the second byte of a pair, and a read at len yields
\* whatever byte g follows the buffer.
ByteAt(tbl, len, i, g) == IF i < len THEN tbl[i + 1] ELSE g

\* The for loop of the 3.10 branch (lasti already doubled by the caller).
RECURSIVE DeltaLoop(_, _, _, _, _, _, _, _)
DeltaLoop(tbl, len, lasti, i, bc, lineno, g, oob) ==
    IF i >= len
    THEN [err |-> FALSE, lineno |-> lineno, loc |-> Location0, oob |-> oob]
    ELSE LET sdelta == tbl[i + 1]
         IN  IF sdelta = 255
             THEN [err |-> FALSE, lineno |-> lineno, loc |-> Location0, oob |-> oob]
             ELSE LET bc2    == bc + sdelta
                      raw    == ByteAt(tbl, len, i + 1, g)
                      oob2   == oob \/ (i + 1 >= len)
                      ldelta == IF raw = 128 THEN 0 ELSE raw
                      ln     == (IF raw > 128 THEN lineno - 256 ELSE lineno) + ldelta
                  IN  IF bc2 > lasti
                      THEN [err |-> FALSE, lineno |-> ln, loc |-> Location0, oob |-> oob2]
                      ELSE DeltaLoop(tbl, len, lasti, i + 2, bc2, ln, g, oob2)

\* A legacy loop that adds the line delta of a pair before it looks at its
\* bytecode delta, as the 3.10 loop does
RECURSIVE LegacyLoop_eager(_, _, _, _, _, _, _, _)
LegacyLoop_eager(tbl, len, lasti, i, bc, lineno, g, oob) ==
    IF i >= len
    THEN [err |-> FALSE, lineno |-> lineno, loc |-> Location0, oob |-> oob]
    ELSE LET bc2  == bc + tbl[i + 1]
             raw  == ByteAt(tbl, len, i + 1, g)
             oob2 == oob \/ (i + 1 >= len)
             ln   == (IF raw >= 128 THEN lineno - 256 ELSE lineno) + raw
         IN  IF bc2 > lasti
             THEN [err |-> FALSE, lineno |-> ln, loc |-> Location0, oob |-> oob2]
             ELSE LegacyLoop_eager(tbl, len, lasti, i + 2, bc2, ln, g, oob2)

\* The for loop of the < 3.10 branch.
RECURSIVE LegacyLoop(_, _, _, _, _, _, _, _)
LegacyLoop(tbl, len, lasti, i, bc, lineno, g, oob) ==
    IF i >= len
    THEN [err |-> FALSE, lineno |-> lineno, loc |-> Location0, oob |-> oob]
    ELSE LET bc2 == bc + tbl[i + 1]
         IN  IF bc2 > lasti
             THEN [err |-> FALSE, lineno |-> lineno, loc |-> Location0, oob |-> oob]
             ELSE LET raw  == ByteAt(tbl, len, i + 1, g)
                      oob2 == oob \/ (i + 1 >= len)
                      ln   == (IF raw >= 128 THEN lineno - 256 ELSE lineno) + raw
                  IN  LegacyLoop(tbl, len, lasti, i + 2, bc2, ln, g, oob2)

\* The loop of the build's generation: the running lineno, the location the
\* entries wrote into this->location, LocationError, and out-of-bounds reads.
DecodeTable(gen, tbl, first, lasti, g) ==
    CASE gen = "varlen" -> VarlenLoop(tbl, Len(tbl), lasti, 0, 0, first, Location0)
      [] gen = "delta"  -> DeltaLoop(tbl, Len(tbl), 2 * lasti, 0, 0, first, g, FALSE)
      [] OTHER          -> LegacyLoop(tbl, Len(tbl), lasti, 0, 0, first, g, FALSE)

\* the statements of infer_location after the loop (frame.h 319-322): they
\* assign the location from lineno alone, whatever the loop left in it
LocationTail(d) ==
    [err |-> d.err, oob |-> d.oob,
     location |-> [line |-> d.lineno, line_end |-> d.lineno,
                   column |-> 0, column_end |-> 0]]

\* Frame::infer_location on a table that was copied
InferLocation(gen, tbl, first, lasti, g) ==
    LocationTail(DecodeTable(gen, tbl, first, lasti, g))

----------------------------------------------------------------------------
(* The sampled process's memory, as the copy primitives of vm.h see it.    *)
(* Every copy is fallible: whether an object is readable is an input of    *)
(* each call.                                                              *)

\* the code objects, at addresses 3 and 5, and the (code address, bytecode
\* offset) pairs the sampler finds in frame snapshots
Identities == {<<3, 0>>, <<5, 2>>}

co_filename(c) == 40
co_qualname(c) == IF c = 3 THEN 41 ELSE 42
co_name(c) == IF c = 3 THEN 41 ELSE 42
co_firstlineno(c) == IF c = 3 THEN 10 ELSE 20

\* co_linetable (co_lnotab before 3.10)
co_linetable(gen, c) ==
    CASE gen = "varlen" -> IF c = 3 THEN <<232, 2, 216, 4, 7>> ELSE <<233, 4, 208, 1, 3>>
      [] gen = "delta"  -> IF c = 3 THEN <<2, 1, 2, 1>> ELSE <<2, 1>>
      [] OTHER          -> IF c = 3 THEN <<0, 1, 2, 1>> ELSE <<0, 1>>

\* the hard ceiling of pyunicode_to_utf8
MaxStrLen == 1024

\* the string and integer objects: PyUnicodeObject (state.kind, length, the
\* bytes that follow) and PyLongObject
StrAddrs == {40, 41, 42, 43, 44, 45, 46, 47}
StrObj(a) ==
    CASE a = 40 -> [type |-> "unicode", kind |-> 1, length |-> 4,    text |-> "a.py", value |-> 0]
      [] a = 41 -> [type |-> "unicode", kind |-> 1, length |-> 1,    text |-> "f",    value |-> 0]
      [] a = 42 -> [type |-> "unicode", kind |-> 1, length |-> 1,    text |-> "g",    value |-> 0]
      [] a = 43 -> [type |-> "long",    kind |-> 0, length |-> 0,    text |-> "",     value |-> 7]
      [] a = 45 -> [type |-> "unicode", kind |-> 1, length |-> -1,   text |-> "neg",  value |-> 0]
      [] a = 46 -> [type |-> "unicode", kind |-> 1, length |-> MaxStrLen + 1, text |-> "over", value |-> 0]
      [] a = 47 -> [type |-> "unicode", kind |-> 1, length |-> MaxStrLen, text |-> "edge", value |-> 0]
      [] OTHER  -> [type |-> "unicode", kind |-> 1, length |-> 2000, text |-> "big",  value |-> 0]

\* program counters the unwinder reports, and the symbol that owns each
Pcs == {0, 50}
start_ip(pc) == 50
proc_name(pc) == "_Z3foov"

\* abi::__cxa_demangle: the demangled name, or status # 0
Demangle(sym) ==
    IF sym = "_Z3foov" THEN [status |-> 0, name |-> "foo()"]
    ELSE [status |-> 1, name |-> sym]

\* snprintf("native@%p") of a program counter (written in decimal here)
NativeAt(pc) == "native@" \o ToString(pc)

----------------------------------------------------------------------------
(* strings.h *)

StringTable_INVALID == 1
StringTable_UNKNOWN == 2

\* StringTable::StringTable
StringTableInit ==
    (0 :> "") @@ (StringTable_INVALID :> "<invalid>") @@ (StringTable_UNKNOWN :> "<unknown>")

\* A pyunicode_to_utf8 that trusts the declared length
pyunicode_to_utf8_unbounded(a, readable) ==
    LET o == StrObj(a)
    IN  IF ~readable THEN [err |-> TRUE, text |-> "", reads |-> 1]
        ELSE IF o.kind # 1 THEN [err |-> TRUE, text |-> "", reads |-> 1]
        ELSE [err |-> FALSE, text |-> o.text, reads |-> 2]

\* pyunicode_to_utf8: StringError (err), the text and the copies made
pyunicode_to_utf8(a, readable) ==
    LET o == StrObj(a)
    IN  IF ~readable THEN [err |-> TRUE, text |-> "", reads |-> 1]
        ELSE IF o.kind # 1 THEN [err |-> TRUE, text |-> "", reads |-> 1]
        ELSE IF o.length < 0 \/ o.length > MaxStrLen
             THEN [err |-> TRUE, text |-> "", reads |-> 1]
        ELSE [err |-> FALSE, text |-> o.text, reads |-> 2]

\* pylong_to_llong: LongError (err) or a value.  The function ends without a
\* return statement, so the value the caller sees is ub, whatever the build
\* leaves in the return register.
pylong_to_llong(a, readable, ub) ==
    IF ~readable THEN [err |-> TRUE, value |-> 0, reads |-> 1]
    ELSE IF StrObj(a).type # "long" THEN [err |-> TRUE, value |-> 0, reads |-> 1]
    ELSE [err |-> FALSE, value |-> ub, reads |-> 1]

\* The text StringTable::key(PyObject*) stores for a new key
ReadPyString(gen, a, readable, ub) ==
    IF gen = "varlen"
    THEN LET l == pylong_to_llong(a, readable, ub)
         IN  IF ~l.err
             THEN [err |-> FALSE, text |-> "Task-" \o ToString(l.value), reads |-> l.reads]
             ELSE LET u == pyunicode_to_utf8(a, readable)
                  IN  [err |-> u.err, text |-> u.text, reads |-> l.reads + u.reads]
    ELSE pyunicode_to_utf8(a, readable)

\* A key() that copies the object from foreign memory whether or not its
\* address has an entry
StringTable_key_reread(gen, table, a, readable, ub) ==
    LET r == ReadPyString(gen, a, readable, ub)
    IN  IF r.err
        THEN [table |-> table, err |-> TRUE, key |-> 0, reads |-> r.reads]
        ELSE [table |-> (a :> r.text) @@ table, err |-> FALSE, key |-> a,
              reads |-> r.reads]

\* A key() that returns the address of a new string and stores nothing
StringTable_key_unstored(gen, table, a, readable, ub) ==
    IF a \in DOMAIN table
    THEN [table |-> table, err |-> FALSE, key |-> a, reads |-> 0]
    ELSE LET r == ReadPyString(gen, a, readable, ub)
         IN  [table |-> table, err |-> r.err, key |-> IF r.err THEN 0 ELSE a,
              reads |-> r.reads]

\* StringTable::key(PyObject*): the table after the call, StringTable::Error
\* (err), the key and the number of copies from foreign memory
StringTable_key(gen, table, a, readable, ub) ==
    IF a \in DOMAIN table
    THEN [table |-> table, err |-> FALSE, key |-> a, reads |-> 0]
    ELSE LET r == ReadPyString(gen, a, readable, ub)
         IN  IF r.err
             THEN [table |-> table, err |-> TRUE, key |-> 0, reads |-> r.reads]
             ELSE [table |-> (a :> r.text) @@ table, err |-> FALSE, key |-> a,
                   reads |-> r.reads]

\* the program counters StringTable::key is given directly: the value of a
\* reserved key, the address of a string object, the start of a symbol
NativePcs == {StringTable_UNKNOWN, 41, 50}

\* A key(unw_word_t) that stores its text whether or not the key has one
StringTable_key_pc_overwrite(table, pc) ==
    [table |-> (pc :> NativeAt(pc)) @@ table, err |-> FALSE, key |-> pc]

\* StringTable::key(unw_word_t)
StringTable_key_pc(table, pc) ==
    IF pc \in DOMAIN table
    THEN [table |-> table, err |-> FALSE, key |-> pc]
    ELSE [table |-> (pc :> NativeAt(pc)) @@ table, err |-> FALSE, key |-> pc]

\* StringTable::key(unw_cursor_t&): pi_ok and name_ok are the outcomes of
\* unw_get_proc_info and unw_get_proc_name for the cursor
StringTable_key_cursor(table, pc, pi_ok, name_ok) ==
    IF ~pi_ok THEN [table |-> table, err |-> TRUE, key |-> 0]
    ELSE LET k == start_ip(pc)
         IN  IF k \in DOMAIN table
             THEN [table |-> table, err |-> FALSE, key |-> k]
             ELSE IF ~name_ok THEN [table |-> table, err |-> TRUE, key |-> 0]
             ELSE LET sym == proc_name(pc)
                      d   == Demangle(sym)
                      name == IF d.status = 0 THEN d.name ELSE sym
                  IN  [table |-> (k :> name) @@ table, err |-> FALSE, key |-> k]

\* StringTable::lookup: LookupError (err) or the text of the key
StringTable_lookup(table, k) ==
    IF k \notin DOMAIN table THEN [err |-> TRUE, text |-> ""]
    ELSE [err |-> FALSE, text |-> table[k]]

----------------------------------------------------------------------------
(* The state *)

VARIABLES
    gen,            \* the build: the generation PY_VERSION_HEX selects
    string_table,   \* strings.h: string_table, key -> text
    frame_cache,    \* frame.h: frame_cache, an LRUCache or nullptr
    sentinel,       \* frame.h: INVALID_FRAME and UNKNOWN_FRAME
    stream,         \* the records written to the MOJO sink, oldest first
    last,           \* the last call: its arguments, what it returned and read
    uses            \* history: the cached keys, the most recently used first

resolverVars == <<gen, string_table, frame_cache, sentinel, stream, last, uses>>

VARIABLES
    lock,           \* render.h: MojoRenderer::lock, the thread that has it or "free"
    output,         \* render.h: MojoRenderer::output, what the sink holds
    is_open,        \* whether output is open
    event,          \* the MojoRenderer call each thread is in
    calls           \* the number of MojoRenderer calls made so far

encoderVars == <<lock, output, is_open, event, calls>>

VARIABLES
    made,           \* the renderer instances that have been constructed
    owners,         \* the number of shared_ptr that own each instance
    valid,          \* what is_valid() of each instance returns
    currentRenderer,\* render.h: Renderer::currentRenderer, a weak_ptr
    lastSet,        \* history: the argument of the last set_renderer
    dispatched      \* the facade call just made and the renderer that got it

rendererVars == <<made, owners, valid, currentRenderer, lastSet, dispatched>>

VARIABLES
    input,          \* the arguments of the function being applied
    result          \* what it produced, or NoResult before it has run

pureVars == <<input, result>>

vars == <<resolverVars, encoderVars, rendererVars, pureVars>>

----------------------------------------------------------------------------
(* cache.h: LRUCache<K, V>, the most recently used item first *)

NoCache == [live |-> FALSE, capacity |-> 0, items |-> <<>>]

NewLRUCache(capacity) == [live |-> TRUE, capacity |-> capacity, items |-> <<>>]

CacheKeys(cache) == {cache.items[i].key : i \in DOMAIN cache.items}

CacheIndex(cache, k) == CHOOSE i \in DOMAIN cache.items : cache.items[i].key = k

CacheValue(cache, k) == cache.items[CacheIndex(cache, k)].value

\* A lookup that leaves the order of the items alone
LRU_lookup_unpromoted(cache, k) == cache

\* LRUCache::lookup of a key that is present: the item moves to the front
LRU_lookup(cache, k) ==
    LET i  == CacheIndex(cache, k)
        n  == Len(cache.items)
    IN  [cache EXCEPT !.items = <<cache.items[i]>> \o SubSeq(cache.items, 1, i - 1)
                                   \o SubSeq(cache.items, i + 1, n)]

\* A store that never destroys an item
LRU_store_unbounded(cache, k, v) ==
    [cache EXCEPT !.items = <<[key |-> k, value |-> v]>> \o cache.items]

\* LRUCache::store: at capacity the item at the back is destroyed
LRU_store(cache, k, v) ==
    LET n    == Len(cache.items)
        kept == IF n >= cache.capacity THEN SubSeq(cache.items, 1, n - 1) ELSE cache.items
    IN  [cache EXCEPT !.items = <<[key |-> k, value |-> v]>> \o kept]

----------------------------------------------------------------------------
(* frame.h *)

\* mojo.h: the width of the MOJO_INT32 mask
MOJO_INT32_BITS == 32

RECURSIVE LowBits(_, _)
LowBits(x, n) == IF n = 0 \/ x = 0 THEN 0 ELSE (x % 2) + 2 * LowBits(x \div 2, n - 1)

\* Frame::key(PyCodeObject*, int): lasti is an int, widened to uintptr_t
Frame_key(code, lasti) == BitOr(LowBits(code, MOJO_INT32_BITS) * 65536, lasti)

Frame(cache_key, filename, name, location) ==
    [cache_key |-> cache_key, filename |-> filename, name |-> name,
     location |-> location, is_entry |-> FALSE]

\* mojo.frame(...) as Frame::get calls it
MojoFrame(sm, f) ==
    Append(sm, [ev |-> "frame", key |-> f.cache_key, filename |-> f.filename,
                name |-> f.name, line |-> f.location.line,
                line_end |-> f.location.line_end, column |-> f.location.column,
                column_end |-> f.location.column_end])

\* What a resolver call leaves behind and returns.  ret is "cached" (a
\* reference to the Frame the cache owns under key), "INVALID_FRAME",
\* "UNKNOWN_FRAME" or "throw" (a Frame::Error leaves the call).
Outcome(st, fc, sm, ret, key, reads) ==
    [string_table |-> st, frame_cache |-> fc, stream |-> sm, ret |-> ret,
     key |-> key, reads |-> reads]

\* Frame::Frame(PyCodeObject*, int) once both strings are interned (fn, nm):
\* infer_location copies and decodes the location table
Frame_located(c, lasti, fail, fn, nm, rs) ==
    IF nm.err
    THEN [err |-> TRUE, table |-> nm.table, reads |-> rs, frame |-> Frame(0, fn.key, 0, Location0)]
    ELSE IF fail = "linetable"
    THEN [err |-> TRUE, table |-> nm.table, reads |-> rs \cup {"linetable"},
          frame |-> Frame(0, fn.key, nm.key, Location0)]
    ELSE LET loc == InferLocation(gen, co_linetable(gen, c), co_firstlineno(c), lasti, 0)
         IN  [err |-> loc.err, table |-> nm.table, reads |-> rs \cup {"linetable"},
              frame |-> Frame(0, fn.key, nm.key, loc.location)]

\* Frame::Frame(PyCodeObject*, int) once the filename is interned (fn)
Frame_named(c, lasti, fail, fn, nm) ==
    Frame_located(c, lasti, fail, fn, nm,
                  IF fn.reads + nm.reads > 0 THEN {"strings"} ELSE {})

Frame_filed(c, lasti, fail, fn) ==
    IF fn.err
    THEN [err |-> TRUE, table |-> fn.table, reads |-> {"strings"}, frame |-> Frame(0, 0, 0, Location0)]
    ELSE Frame_named(c, lasti, fail, fn,
                     StringTable_key(gen, fn.table,
                                     IF gen = "varlen" THEN co_qualname(c) ELSE co_name(c),
                                     fail # "name", 0))

\* Frame::Frame(PyCodeObject*, int): fail names the object that cannot be
\* copied during this call, if any
Frame_from_code(c, lasti, fail) ==
    Frame_filed(c, lasti, fail,
                StringTable_key(gen, string_table, co_filename(c), fail # "filename", 0))

\* the catch block of a lookup that misses, given the new Frame f: mojo.frame,
\* frame_cache->store, return f
\* A store that declares nothing
Frame_store_silent(table, frame_key, f, reads) ==
    Outcome(table, LRU_store(frame_cache, frame_key, f), stream, "cached", frame_key, reads)

Frame_store(table, frame_key, f, reads) ==
    Outcome(table, LRU_store(frame_cache, frame_key, f), MojoFrame(stream, f),
            "cached", frame_key, reads)

\* the catch block of Frame::get(PyCodeObject*, int), given what the
\* constructor of the new Frame did (n)
Frame_get_code_miss(frame_key, n) ==
    IF n.err
    THEN Outcome(n.table, frame_cache, stream, "INVALID_FRAME", 0, n.reads)
    ELSE Frame_store(n.table, frame_key, [n.frame EXCEPT !.cache_key = frame_key], n.reads)

\* A Frame::get that resolves without asking the cache
Frame_get_code_uncached(c, lasti, fail) ==
    IF fail = "code"
    THEN Outcome(string_table, frame_cache, stream, "INVALID_FRAME", 0, {})
    ELSE Frame_get_code_miss(Frame_key(c, lasti), Frame_from_code(c, lasti, fail))

\* Frame::get(PyCodeObject*, int)
Frame_get_code(c, lasti, fail) ==
    IF fail = "code"
    THEN Outcome(string_table, frame_cache, stream, "INVALID_FRAME", 0, {})
    ELSE IF Frame_key(c, lasti) \in CacheKeys(frame_cache)
    THEN Outcome(string_table, LRU_lookup(frame_cache, Frame_key(c, lasti)), stream,
                 "cached", Frame_key(c, lasti), {})
    ELSE Frame_get_code_miss(Frame_key(c, lasti), Frame_from_code(c, lasti, fail))

\* Frame::Frame(unw_cursor_t&, unw_word_t) inside Frame::get(unw_cursor_t&)
Frame_get_native(pc, pi_ok, name_ok) ==
    IF pc = 0
    THEN Outcome(string_table, frame_cache, stream, "throw", 0, {})
    ELSE IF pc \in CacheKeys(frame_cache)
    THEN Outcome(string_table, LRU_lookup(frame_cache, pc), stream, "cached", pc, {})
    ELSE LET fn == StringTable_key_pc(string_table, pc)
             nm == StringTable_key_cursor(fn.table, pc, pi_ok, name_ok)
             f  == Frame(pc, fn.key, nm.key, Location0)
         IN  IF nm.err
             THEN Outcome(nm.table, frame_cache, stream, "UNKNOWN_FRAME", 0, {})
             ELSE Frame_store(nm.table, pc, f, {})

\* Frame::get(StringTable::Key)
Frame_get_name(name) ==
    IF name \in CacheKeys(frame_cache)
    THEN Outcome(string_table, LRU_lookup(frame_cache, name), stream, "cached", name, {})
    ELSE Frame_store(string_table, name, Frame(name, 0, name, Location0), {})

----------------------------------------------------------------------------
(* The calls of the sampler *)

\* The call the sampler has made and whose result it has not consumed yet.
\* op: the entry point; ret: what it returned; key: the key of the Frame or
\* string returned; reads: what it copied from foreign memory beyond the
\* frame snapshot and the code object; prev: *prev_addr of Frame::read; arg:
\* the address or program counter a call of StringTable::key was given
NoCall == [op |-> "none", ret |-> "none", key |-> 0, reads |-> {}, prev |-> 0, arg |-> 0]

Call(op, ret, key, reads, prev) ==
    [op |-> op, ret |-> ret, key |-> key, reads |-> reads, prev |-> prev, arg |-> 0]

KeyCall(op, ret, key, reads, arg) ==
    [op |-> op, ret |-> ret, key |-> key, reads |-> reads, prev |-> 0, arg |-> arg]

\* the objects whose copy a call of Frame::get may find unreadable
Failures == {"none", "code", "filename", "name", "linetable"}
\* and those of Frame::read: the frame snapshot, its executable, or a chain
\* of frames none of which has a code object as its executable
ReadFailures == Failures \cup {"frame", "executable", "noexe"}

\* values the return register may hold when pylong_to_llong falls off its end
LongOutcomes == {0, 7}

\* The history of uses after a resolver call: a call that returns a cached
\* Frame has used its key, by storing it or by finding it; keys that have left
\* the cache leave the history.
Used(u, r) ==
    IF r.ret = "cached"
    THEN <<r.key>> \o SelectSeq(u, LAMBDA k : k # r.key /\ k \in CacheKeys(r.frame_cache))
    ELSE u

\* init_frame_cache(capacity)
InitFrameCache(capacity) ==
    /\ last = NoCall
    /\ frame_cache' = NewLRUCache(capacity)
    /\ last' = Call("init_frame_cache", "none", 0, {}, 0)
    /\ uses' = <<>>
    /\ UNCHANGED <<gen, string_table, sentinel, stream>>
    /\ UNCHANGED <<encoderVars, rendererVars, pureVars>>

\* reset_frame_cache()
ResetFrameCache ==
    /\ last = NoCall
    /\ frame_cache.live
    /\ frame_cache' = NoCache
    /\ last' = Call("reset_frame_cache", "none", 0, {}, 0)
    /\ uses' = <<>>
    /\ UNCHANGED <<gen, string_table, sentinel, stream>>
    /\ UNCHANGED <<encoderVars, rendererVars, pureVars>>

\* A Frame::read that reports the previous frame of every snapshot
Frame_read_prev_always(ret, previous) == previous

\* *prev_addr = &frame == &INVALID_FRAME ? NULL : previous of the snapshot
Frame_read_prev(ret, previous) == IF ret = "INVALID_FRAME" THEN 0 ELSE previous

\* A resolver call returns r to the sampler: what it did to the string table,
\* the cache and the stream, and the call as the sampler sees it
Returns(op, r, prev) ==
    /\ Len(r.stream) <= MaxStream
    /\ string_table' = r.string_table
    /\ frame_cache' = r.frame_cache
    /\ stream' = r.stream
    /\ last' = Call(op, r.ret, r.key, r.reads, Frame_read_prev(r.ret, prev))
    /\ uses' = Used(uses, r)

\* Frame::get(PyCodeObject*, int) called by the sampler
FrameGet(c, lasti, fail) ==
    /\ last = NoCall
    /\ frame_cache.live
    /\ Returns("get_code", Frame_get_code(c, lasti, fail), 0)
    /\ UNCHANGED <<gen, sentinel>>
    /\ UNCHANGED <<encoderVars, rendererVars, pureVars>>

\* the Frame a result of Frame::get refers to: one of the two sentinels, or
\* the Frame the cache owns under r.key
FrameRef(r) ==
    IF r.ret \in {"INVALID_FRAME", "UNKNOWN_FRAME"} THEN r.ret ELSE "cached"

\* A Frame::read that assigns is_entry to whatever Frame::get returned
Frame_read_target_unguarded(r) ==
    IF gen = "varlen" THEN FrameRef(r) ELSE "none"

\* Frame::read from 3.11 on: the Frame whose is_entry is assigned, which is
\* the one Frame::get returned (r) unless that is INVALID_FRAME
Frame_read_target(r) ==
    IF gen = "varlen" /\ r.ret # "INVALID_FRAME" THEN FrameRef(r) ELSE "none"

\* A Frame::read that assigns the entry flag to the name of the Frame
Frame_read_entry_misplaced(r, entry) ==
    IF Frame_read_target(r) = "cached"
    THEN [r EXCEPT !.frame_cache.items[CacheIndex(r.frame_cache, r.key)].value.name =
                        IF entry THEN 1 ELSE 0]
    ELSE r

\* frame.is_entry = ... of Frame::read, when the Frame is one the cache owns
Frame_read_entry(r, entry) ==
    IF Frame_read_target(r) = "cached"
    THEN [r EXCEPT !.frame_cache.items[CacheIndex(r.frame_cache, r.key)].value.is_entry = entry]
    ELSE r

\* and when it is a sentinel
Frame_read_sentinel(r, entry) ==
    IF Frame_read_target(r) \in DOMAIN sentinel
    THEN [sentinel EXCEPT ![Frame_read_target(r)].is_entry = entry]
    ELSE sentinel

\* Frame::read(frame_addr, prev_addr).  The snapshot at frame_addr holds the
\* code address c, the offset lasti, the entry flag and the previous frame.
FrameRead(c, lasti, entry, previous, fail) ==
    /\ last = NoCall
    /\ frame_cache.live
    /\ IF fail = "frame" \/ (gen = "varlen" /\ fail \in {"executable", "noexe"})
       THEN /\ last' = Call("read", "throw", 0, {}, 0)
            /\ UNCHANGED <<string_table, frame_cache, sentinel, stream, uses>>
       ELSE /\ Returns("read", Frame_read_entry(Frame_get_code(c, lasti, fail), entry), previous)
            /\ sentinel' = Frame_read_sentinel(Frame_get_code(c, lasti, fail), entry)
    /\ UNCHANGED gen
    /\ UNCHANGED <<encoderVars, rendererVars, pureVars>>

\* Frame::get(unw_cursor_t&)
FrameGetNative(pc, pi_ok, name_ok) ==
    /\ last = NoCall
    /\ frame_cache.live
    /\ Returns("get_native", Frame_get_native(pc, pi_ok, name_ok), 0)
    /\ UNCHANGED <<gen, sentinel>>
    /\ UNCHANGED <<encoderVars, rendererVars, pureVars>>

\* Frame::get(StringTable::Key)
FrameGetName(name) ==
    /\ last = NoCall
    /\ frame_cache.live
    /\ Returns("get_name", Frame_get_name(name), 0)
    /\ UNCHANGED <<gen, sentinel>>
    /\ UNCHANGED <<encoderVars, rendererVars, pureVars>>

\* string_table.key(PyObject*) called by the sampler (thread and task names)
InternString(a, readable, ub) ==
    /\ last = NoCall
    /\ LET r == StringTable_key(gen, string_table, a, readable, ub)
       IN  /\ string_table' = r.table
           /\ last' = KeyCall("intern", IF r.err THEN "throw" ELSE "key", r.key,
                              IF r.reads > 0 THEN {"strings"} ELSE {}, a)
    /\ UNCHANGED <<gen, frame_cache, sentinel, stream, uses>>
    /\ UNCHANGED <<encoderVars, rendererVars, pureVars>>

\* StringTable::key(unw_word_t) called on the program counter pc
InternNativeAddress(pc) ==
    /\ last = NoCall
    /\ LET r == StringTable_key_pc(string_table, pc)
       IN  /\ string_table' = r.table
           /\ last' = KeyCall("intern_pc", "key", r.key, {}, pc)
    /\ UNCHANGED <<gen, frame_cache, sentinel, stream, uses>>
    /\ UNCHANGED <<encoderVars, rendererVars, pureVars>>

\* StringTable::key(unw_cursor_t&) called on a cursor at pc
InternNativeSymbol(pc, pi_ok, name_ok) ==
    /\ last = NoCall
    /\ LET r == StringTable_key_cursor(string_table, pc, pi_ok, name_ok)
       IN  /\ string_table' = r.table
           /\ last' = KeyCall("intern_symbol", IF r.err THEN "throw" ELSE "key", r.key, {}, pc)
    /\ UNCHANGED <<gen, frame_cache, sentinel, stream, uses>>
    /\ UNCHANGED <<encoderVars, rendererVars, pureVars>>

\* The sampler takes the value the call returned and goes on
Return ==
    /\ last # NoCall
    /\ last' = NoCall
    /\ UNCHANGED <<gen, string_table, frame_cache, sentinel, stream, uses>>
    /\ UNCHANGED <<encoderVars, rendererVars, pureVars>>

\* names the sampler resolves as synthetic frames
SyntheticNames == {41}
PrevAddrs == {70}

----------------------------------------------------------------------------
(* render.h: MojoRenderer, the binary encoder, called from several threads *)

Threads == {"t1", "t2"}

\* the number of calls the threads make in all
MaxCalls == 2

Methods == {"header", "metadata", "stack", "frame", "frame_kernel", "metric_time",
            "metric_memory", "string", "string_ref", "close"}

\* What each method writes to output, in order, after it has taken the lock:
\* the tag byte (event), integers, refs and strings; close writes nothing.
Fields(m) ==
    CASE m = "header"        -> <<"MOJ", "integer">>
      [] m = "metadata"      -> <<"event", "string", "string">>
      [] m = "stack"         -> <<"event", "integer", "integer", "string">>
      [] m = "frame"         -> <<"event", "ref", "ref", "ref",
                                  "integer", "integer", "integer", "integer">>
      [] m = "frame_kernel"  -> <<"event", "string">>
      [] m = "metric_time"   -> <<"event", "integer">>
      [] m = "metric_memory" -> <<"event", "integer">>
      [] m = "string"        -> <<"event", "ref", "string">>
      [] m = "string_ref"    -> <<"event", "ref">>
      [] OTHER               -> <<>>

\* a thread outside every call
NoEvent == [method |-> "none", at |-> 0, id |-> 0]

\* A mutex that lets every thread in
MutexAlwaysFree(l) == TRUE

\* std::mutex: lock() returns when no thread has the mutex
MutexFree(l) == l = "free"

\* a thread enters a method of the encoder
EncoderCall(t, m) ==
    /\ event[t] = NoEvent
    /\ calls < MaxCalls
    /\ calls' = calls + 1
    /\ event' = [event EXCEPT ![t] = [method |-> m, at |-> 0, id |-> calls + 1]]
    /\ UNCHANGED <<lock, output, is_open>>
    /\ UNCHANGED <<resolverVars, rendererVars, pureVars>>

\* std::lock_guard<std::mutex> guard(lock), the first statement of every method
EncoderLock(t) ==
    /\ event[t].method # "none"
    /\ event[t].at = 0
    /\ MutexFree(lock)
    /\ lock' = t
    /\ event' = [event EXCEPT ![t].at = 1]
    /\ UNCHANGED <<output, is_open, calls>>
    /\ UNCHANGED <<resolverVars, rendererVars, pureVars>>

\* event(...), integer(...), ref(...), string(...): the next field of the
\* event goes to output; a closed ofstream drops what is written to it
EncoderWrite(t) ==
    /\ event[t].method # "none"
    /\ event[t].at \in 1..Len(Fields(event[t].method))
    /\ output' = IF is_open
                 THEN Append(output, [call |-> event[t].id, method |-> event[t].method,
                                      field |-> event[t].at])
                 ELSE output
    /\ event' = [event EXCEPT ![t].at = @ + 1]
    /\ UNCHANGED <<lock, is_open, calls>>
    /\ UNCHANGED <<resolverVars, rendererVars, pureVars>>

\* the end of the method: close() flushes and closes output; the guard goes
\* out of scope and unlocks
EncoderReturn(t) ==
    /\ event[t].method # "none"
    /\ event[t].at = Len(Fields(event[t].method)) + 1
    /\ is_open' = IF event[t].method = "close" THEN FALSE ELSE is_open
    /\ lock' = "free"
    /\ event' = [event EXCEPT ![t] = NoEvent]
    /\ UNCHANGED <<output, calls>>
    /\ UNCHANGED <<resolverVars, rendererVars, pureVars>>

----------------------------------------------------------------------------
(* render.h: Renderer, the facade *)

\* renderer instances that code outside the facade makes and owns
Instances == {"r1", "r2"}

\* the most shared_ptr that own one instance at a time
MaxOwners == 2

FacadeMethods == Methods \cup {"render_message", "render_thread_begin", "render_task_begin",
                               "render_stack_begin", "render_frame", "render_cpu_time",
                               "render_stack_end"}

NoDispatch == [method |-> "none", target |-> "none"]

\* weak_ptr::lock(): the instance, or nothing once its last owner is gone
WeakLock(cur, own) == IF cur \in Instances /\ own[cur] > 0 THEN cur ELSE "none"

\* A getActiveRenderer that does not ask is_valid()
getActiveRenderer_unchecked(cur, own, val) ==
    LET renderer == WeakLock(cur, own)
    IN  IF renderer # "none" THEN renderer ELSE "default_renderer"

\* Renderer::getActiveRenderer
getActiveRenderer(cur, own, val) ==
    LET renderer == WeakLock(cur, own)
    IN  IF renderer # "none" /\ val[renderer] THEN renderer ELSE "default_renderer"

\* std::make_shared of a renderer outside the facade
MakeRenderer(i) ==
    /\ ~made[i]
    /\ made' = [made EXCEPT ![i] = TRUE]
    /\ owners' = [owners EXCEPT ![i] = 1]
    /\ valid' = [valid EXCEPT ![i] = TRUE]
    /\ dispatched' = NoDispatch
    /\ UNCHANGED <<currentRenderer, lastSet>>
    /\ UNCHANGED <<resolverVars, encoderVars, pureVars>>

\* an owner copies its shared_ptr
ShareRenderer(i) ==
    /\ owners[i] \in 1..(MaxOwners - 1)
    /\ owners' = [owners EXCEPT ![i] = @ + 1]
    /\ dispatched' = NoDispatch
    /\ UNCHANGED <<made, valid, currentRenderer, lastSet>>
    /\ UNCHANGED <<resolverVars, encoderVars, pureVars>>

\* an owner drops its shared_ptr; the last one to go destroys the instance
DropRenderer(i) ==
    /\ owners[i] > 0
    /\ owners' = [owners EXCEPT ![i] = @ - 1]
    /\ dispatched' = NoDispatch
    /\ UNCHANGED <<made, valid, currentRenderer, lastSet>>
    /\ UNCHANGED <<resolverVars, encoderVars, pureVars>>

\* the state behind an instance becomes unusable, or usable again
SetValid(i, b) ==
    /\ owners[i] > 0
    /\ valid[i] # b
    /\ valid' = [valid EXCEPT ![i] = b]
    /\ dispatched' = NoDispatch
    /\ UNCHANGED <<made, owners, currentRenderer, lastSet>>
    /\ UNCHANGED <<resolverVars, encoderVars, pureVars>>

\* Renderer::set_renderer(renderer): the argument is an owner's shared_ptr, or
\* an empty one ("none"); the copy the call holds is gone when it returns
SetRenderer(i) ==
    /\ i \in Instances => owners[i] > 0
    /\ currentRenderer' = i
    /\ lastSet' = i
    /\ dispatched' = [method |-> "set_renderer", target |-> "none"]
    /\ UNCHANGED <<made, owners, valid>>
    /\ UNCHANGED <<resolverVars, encoderVars, pureVars>>

\* any method of the facade: getActiveRenderer()->method(...)
Dispatch(m) ==
    /\ dispatched' = [method |-> m, target |-> getActiveRenderer(currentRenderer, owners, valid)]
    /\ UNCHANGED <<made, owners, valid, currentRenderer, lastSet>>
    /\ UNCHANGED <<resolverVars, encoderVars, pureVars>>

----------------------------------------------------------------------------
(* render.h: the integer and reference encodings of MojoRenderer.          *)
(* mojo_int_t and mojo_ref_t are 64 bits wide, beyond the integers of TLC: *)
(* a value is its sign and the bits of its magnitude, the least            *)
(* significant first and the most significant one set.                     *)

\* the bits an integer of the claimed range needs: 2^40 has 41
MaxBits == 41
\* every magnitude below 2^SmallBits is an input
SmallBits == 7
\* the width of mojo_ref_t
RefBits == 64

RECURSIVE ToBits(_)
ToBits(v) == IF v = 0 THEN <<>> ELSE <<v % 2>> \o ToBits(v \div 2)

Ones(n) == [i \in 1..n |-> 1]
PowerOfTwo(n) == [i \in 1..(n + 1) |-> IF i = n + 1 THEN 1 ELSE 0]
Alternating(n) == [i \in 1..n |-> IF (n - i) % 2 = 0 THEN 1 ELSE 0]

Magnitudes ==
    {ToBits(v) : v \in 0..(Pow2(SmallBits) - 1)}
        \cup {Ones(n) : n \in 1..(MaxBits - 1)}
        \cup {PowerOfTwo(n) : n \in 0..(MaxBits - 1)}
        \cup {Alternating(n) : n \in 1..(MaxBits - 1)}

Wide(neg, mag) == [neg |-> neg, mag |-> mag]

\* the arguments of integer(): n < 0 has a magnitude
WideInts == {Wide(neg, mag) : neg \in BOOLEAN, mag \in Magnitudes} \ {Wide(TRUE, <<>>)}

\* integer & mask, for a mask of the n low bits
RECURSIVE LowValue(_, _)
LowValue(bits, n) ==
    IF n = 0 \/ bits = <<>> THEN 0
    ELSE bits[1] + 2 * LowValue(Tail(bits), n - 1)

\* integer >>= n
ShiftRight(bits, n) == SubSeq(bits, n + 1, Len(bits))

\* if (integer)
NonZero(bits) == \E i \in DOMAIN bits : bits[i] = 1

\* the while loop of integer()
RECURSIVE Mojo_integer_loop(_, _)
Mojo_integer_loop(integer, out) ==
    IF ~NonZero(integer) THEN out
    ELSE Mojo_integer_loop(ShiftRight(integer, 7),
            Append(out, LowValue(integer, 7)
                        + (IF NonZero(ShiftRight(integer, 7)) THEN 128 ELSE 0)))

\* An integer() that drops the sign
Mojo_integer_unsigned(n) ==
    Mojo_integer_loop(ShiftRight(n.mag, 6),
        <<LowValue(n.mag, 6) + (IF NonZero(ShiftRight(n.mag, 6)) THEN 128 ELSE 0)>>)

\* MojoRenderer::integer: the bytes it puts
Mojo_integer(n) ==
    Mojo_integer_loop(ShiftRight(n.mag, 6),
        <<LowValue(n.mag, 6) + (IF n.neg THEN 64 ELSE 0)
            + (IF NonZero(ShiftRight(n.mag, 6)) THEN 128 ELSE 0)>>)

\* A ref() that writes the whole key
Mojo_ref_unmasked(value) == Mojo_integer(Wide(FALSE, value))

\* MojoRenderer::ref: integer(MOJO_INT32 & value)
Mojo_ref(value) ==
    Mojo_integer(Wide(FALSE, SubSeq(value, 1, IF Len(value) < MOJO_INT32_BITS
                                               THEN Len(value) ELSE MOJO_INT32_BITS)))

\* MojoRenderer::event: the tag byte, by the name mojo.h gives it
Mojo_event(tag) == <<tag>>

\* MojoRenderer::frame
Mojo_frame(key, filename, name, line, line_end, column, column_end) ==
    Mojo_event("MOJO_FRAME") \o Mojo_ref(key) \o Mojo_ref(filename) \o Mojo_ref(name)
        \o Mojo_integer(line) \o Mojo_integer(line_end)
        \o Mojo_integer(column) \o Mojo_integer(column_end)

\* MojoRenderer::string_ref
Mojo_string_ref(key) == Mojo_event("MOJO_STRING_REF") \o Mojo_ref(key)

\* The reference decoder of the protocol.  A magnitude without its high
\* zero bits
RECURSIVE Normal(_)
Normal(bits) ==
    IF bits = <<>> THEN <<>>
    ELSE IF bits[Len(bits)] = 1 THEN bits
    ELSE Normal(SubSeq(bits, 1, Len(bits) - 1))

\* the n low bits of a byte
ByteBits(b, n) == [i \in 1..n |-> (b \div Pow2(i - 1)) % 2]

\* the continuation bytes from position i on
RECURSIVE Decode_rest(_, _, _)
Decode_rest(bytes, i, bits) ==
    IF i > Len(bytes) THEN [bits |-> bits, next |-> i, short |-> TRUE]
    ELSE IF bytes[i] >= 128
         THEN Decode_rest(bytes, i + 1, bits \o ByteBits(bytes[i], 7))
         ELSE [bits |-> bits \o ByteBits(bytes[i], 7), next |-> i + 1, short |-> FALSE]

\* what the integer is worth, given its first byte b and what followed
Decode_value(b, r) ==
    [value |-> Wide((b \div 64) % 2 = 1 /\ NonZero(r.bits), Normal(r.bits)),
     next |-> r.next, short |-> r.short]

\* one integer at position i: its value, the position after it, and whether
\* the bytes ended inside it
Decode_integer(bytes, i) ==
    IF i > Len(bytes) THEN [value |-> Wide(FALSE, <<>>), next |-> i, short |-> TRUE]
    ELSE IF bytes[i] >= 128
         THEN Decode_value(bytes[i], Decode_rest(bytes, i + 1, ByteBits(bytes[i], 6)))
         ELSE Decode_value(bytes[i], [bits |-> ByteBits(bytes[i], 6), next |-> i + 1,
                                      short |-> FALSE])

\* count integers from position i on
RECURSIVE Decode_integers(_, _, _, _)
Decode_integers(bytes, i, count, values) ==
    IF count = 0 THEN [values |-> values, next |-> i]
    ELSE Decode_integers(bytes, Decode_integer(bytes, i).next, count - 1,
                         Append(values, Decode_integer(bytes, i).value))

\* the events of a stream from position i on: the tag and the integers of
\* each
RECURSIVE Decode_events(_, _, _)
Decode_events(bytes, i, events) ==
    IF i > Len(bytes) THEN events
    ELSE IF bytes[i] = "MOJO_FRAME"
    THEN Decode_events(bytes, Decode_integers(bytes, i + 1, 7, <<>>).next,
            Append(events, [tag |-> bytes[i],
                            values |-> Decode_integers(bytes, i + 1, 7, <<>>).values]))
    ELSE Decode_events(bytes, Decode_integers(bytes, i + 1, 1, <<>>).next,
            Append(events, [tag |-> bytes[i],
                            values |-> Decode_integers(bytes, i + 1, 1, <<>>).values]))

\* the arguments of ref(): keys of up to 64 bits
Refs == {ToBits(5), ToBits(40), Ones(MOJO_INT32_BITS), PowerOfTwo(MOJO_INT32_BITS),
         <<1, 0, 1>> \o [i \in 1..(MOJO_INT32_BITS - 3) |-> 0] \o <<1>>,
         Ones(RefBits)}

\* line, line_end, column and column_end: int
Locations ==
    {<<Wide(FALSE, <<>>), Wide(FALSE, <<>>), Wide(FALSE, <<>>), Wide(FALSE, <<>>)>>,
     <<Wide(FALSE, ToBits(11)), Wide(FALSE, ToBits(64)), Wide(FALSE, ToBits(5)),
       Wide(FALSE, ToBits(8192))>>,
     <<Wide(TRUE, ToBits(1)), Wide(TRUE, PowerOfTwo(31)), Wide(FALSE, Ones(31)),
       Wide(FALSE, ToBits(63))>>}

IntegerInputs == {[fn |-> "integer", n |-> n] : n \in WideInts}

FrameInputs ==
    {[fn |-> "frame", key |-> k, filename |-> f, name |-> n, location |-> l] :
        k \in Refs, f \in {ToBits(40), Ones(RefBits)}, n \in {ToBits(41), PowerOfTwo(40)},
        l \in Locations}

\* integer(n) writes to the sink
WriteInteger ==
    /\ input.fn = "integer"
    /\ ~result.done
    /\ result' = [done |-> TRUE, read |-> FALSE, bytes |-> Mojo_integer(input.n)]
    /\ UNCHANGED input
    /\ UNCHANGED <<resolverVars, encoderVars, rendererVars>>

\* frame(...) and then string_ref(key) write to the sink
WriteFrame ==
    /\ input.fn = "frame"
    /\ ~result.done
    /\ result' = [done |-> TRUE, read |-> FALSE,
                  bytes |-> Mojo_frame(input.key, input.filename, input.name,
                                       input.location[1], input.location[2],
                                       input.location[3], input.location[4])
                            \o Mojo_string_ref(input.key)]
    /\ UNCHANGED input
    /\ UNCHANGED <<resolverVars, encoderVars, rendererVars>>

\* a reader decodes what the sink holds
ReadStream ==
    /\ result.done
    /\ ~result.read
    /\ result' = IF input.fn = "integer"
                 THEN [result EXCEPT !.read = TRUE] @@
                      [decoded |-> Decode_integer(result.bytes, 1)]
                 ELSE [result EXCEPT !.read = TRUE] @@
                      [decoded |-> Decode_events(result.bytes, 1, <<>>)]
    /\ UNCHANGED input
    /\ UNCHANGED <<resolverVars, encoderVars, rendererVars>>

----------------------------------------------------------------------------
(* frame.h: the keys of the cache at their full width.  A key is a         *)
(* uintptr_t: the bits of its value, the least significant first, without  *)
(* the high zeros.                                                         *)

\* the width of int
IntBits == 32

\* bit i (from 1) of an int converted to uintptr_t: the conversion extends
\* the sign
SignExtendedBit(v, i) ==
    IF v >= 0
    THEN IF i >= IntBits THEN 0 ELSE (v \div Pow2(i - 1)) % 2
    ELSE IF i >= IntBits THEN 1 ELSE 1 - ((((-v) - 1) \div Pow2(i - 1)) % 2)

\* bit i of ((uintptr_t)code & MOJO_INT32) << 16, for the code addresses of
\* the model, which are below 2^31
ShiftedCodeBit(code, i) ==
    IF i <= 16 \/ i > 16 + MOJO_INT32_BITS THEN 0
    ELSE SignExtendedBit(code, i - 16)

\* Frame::key(PyCodeObject*, int)
Frame_key_wide(code, lasti) ==
    Normal([i \in 1..RefBits |->
                IF ShiftedCodeBit(code, i) = 1 \/ SignExtendedBit(lasti, i) = 1
                THEN 1 ELSE 0])

\* the identities the sampler resolves: a code object and an offset, a
\* program counter, a synthetic name
CodeOffsets == {-1, 0, 2, 65536}
KeyIdentities ==
    {[kind |-> "code", code |-> c, lasti |-> l] : c \in {3, 5}, l \in CodeOffsets}
        \cup {[kind |-> "native", pc |-> pc] : pc \in {50, 196608}}
        \cup {[kind |-> "name", name |-> n] : n \in {41, 50}}

\* the key each overload of Frame::get looks up
FrameKeyOf(id) ==
    CASE id.kind = "code"   -> Frame_key_wide(id.code, id.lasti)
      [] id.kind = "native" -> ToBits(id.pc)
      [] OTHER              -> ToBits(id.name)

KeyInputs == {[fn |-> "key", a |-> a, b |-> b] : a \in KeyIdentities, b \in KeyIdentities}

\* Frame::get computes the key of each of two identities
ComputeKeys ==
    /\ input.fn = "key"
    /\ ~result.done
    /\ result' = [done |-> TRUE, ka |-> FrameKeyOf(input.a), kb |-> FrameKeyOf(input.b)]
    /\ UNCHANGED input
    /\ UNCHANGED <<resolverVars, encoderVars, rendererVars>>

----------------------------------------------------------------------------
(* frame.h: infer_location applied to the location tables of code objects  *)

\* the bytecode offsets a frame is sampled at
MaxOffset == 6
Offsets == 0..MaxOffset

\* co_firstlineno
FirstLines == {1, 10}

\* what may follow the table in the buffer it was copied to
Garbage == {0, 129}

\* co_linetable / co_lnotab of the code objects sampled, by generation.
\* Variable-length entries start with a byte >= 128 that holds the kind in
\* bits 3-6 and the length minus one in bits 0-2.
LineTables(g) ==
    CASE g = "varlen" ->
            {<<0>>,                       \* kind 0 without its second byte
             <<248>>,                     \* kind 15
             <<232, 2, 216, 4, 7>>,       \* kind 13 (+1), kind 11 (columns 4, 7)
             <<240, 4, 1, 5, 9>>,         \* kind 14 (+2, end +1, columns 5, 9)
             <<137, 53>>,                 \* kind 1, two units long
             <<216, 4, 7, 233, 2>>,       \* kind 11, kind 13 (+1), two units long
             <<225, 3, 6, 248>>,          \* kind 12 (columns 3, 6), kind 15
             <<232>>,                     \* kind 13 without its varint
             <<232, 66>>,                 \* kind 13, a varint that continues past the end
             <<240, 4, 1>>,               \* kind 14 without its columns
             <<248, 216, 4>>,             \* kind 15, kind 11 without its end column
             <<248, 137>>}                \* kind 15, kind 1 without its second byte
      [] g = "delta"  ->
            {<<2, 1>>, <<2, 1, 2, 1>>, <<2, 128, 4, 2>>, <<2, 3, 2, 255>>, <<4, 1, 255, 0>>,
             <<2>>, <<2, 1, 2>>}          \* a last pair without its line delta
      [] OTHER        ->
            {<<2, 1>>, <<0, 1, 2, 1>>, <<2, 3, 2, 255>>, <<2, 1, 4, 3>>, <<0, 2, 6, 1>>,
             <<0>>, <<2, 1, 2>>}          \* a last pair without its line delta

LocationInputs(g) ==
    {[fn |-> "infer_location", table |-> t, first |-> f, lasti |-> l] :
        t \in LineTables(g), f \in FirstLines, l \in Offsets}

\* Frame::infer_location runs on the code object of the input
InferLocationCall(g) ==
    /\ input.fn = "infer_location"
    /\ ~result.done
    /\ result' = [done |-> TRUE, again |-> FALSE,
                  r |-> InferLocation(gen, input.table, input.first, input.lasti, g)]
    /\ UNCHANGED input
    /\ UNCHANGED <<resolverVars, encoderVars, rendererVars>>

\* and runs once more on the same code object and offset
InferLocationAgain(g) ==
    /\ input.fn = "infer_location"
    /\ result.done
    /\ ~result.again
    /\ result' = [result EXCEPT !.again = TRUE] @@
                 [second |-> InferLocation(gen, input.table, input.first, input.lasti, g)]
    /\ UNCHANGED input
    /\ UNCHANGED <<resolverVars, encoderVars, rendererVars>>

----------------------------------------------------------------------------
(* The specifications *)

InitProgram ==
    /\ gen \in Generations
    /\ string_table = StringTableInit
    /\ frame_cache = NoCache
    /\ sentinel = [INVALID_FRAME |-> Frame(0, 0, StringTable_INVALID, Location0),
                   UNKNOWN_FRAME |-> Frame(0, 0, StringTable_UNKNOWN, Location0)]
    /\ stream = <<>>
    /\ last = NoCall
    /\ uses = <<>>
    /\ lock = "free"
    /\ output = <<>>
    /\ is_open = TRUE
    /\ event = [t \in Threads |-> NoEvent]
    /\ calls = 0
    /\ made = [i \in Instances |-> FALSE]
    /\ owners = [i \in Instances |-> 0]
    /\ valid = [i \in Instances |-> FALSE]
    /\ currentRenderer = "none"
    /\ lastSet = "none"
    /\ dispatched = NoDispatch

NoInput == [fn |-> "none"]
NoResult == [done |-> FALSE]

Init == InitProgram /\ input = NoInput /\ result = NoResult

\* the sampler resolving frames
Next ==
    \/ \E capacity \in 1..Capacity : InitFrameCache(capacity)
    \/ ResetFrameCache
    \/ \E id \in Identities, fail \in Failures : FrameGet(id[1], id[2], fail)
    \/ \E id \in Identities, entry \in BOOLEAN, previous \in PrevAddrs, fail \in ReadFailures :
            FrameRead(id[1], id[2], entry, previous, fail)
    \/ \E pc \in Pcs, pi_ok \in BOOLEAN, name_ok \in BOOLEAN : FrameGetNative(pc, pi_ok, name_ok)
    \/ \E name \in SyntheticNames : FrameGetName(name)
    \/ Return

Spec == Init /\ [][Next]_vars

\* The sampler interning the names of threads and tasks, program counters
\* and native symbols
NextStrings ==
    \/ \E a \in StrAddrs, readable \in BOOLEAN, ub \in LongOutcomes : InternString(a, readable, ub)
    \/ \E pc \in NativePcs : InternNativeAddress(pc)
    \/ \E pc \in NativePcs, pi_ok \in BOOLEAN, name_ok \in BOOLEAN :
            InternNativeSymbol(pc, pi_ok, name_ok)
    \/ Return

SpecStrings == Init /\ [][NextStrings]_vars

\* the threads of the sampler writing events
NextEncoder ==
    \/ \E t \in Threads, m \in Methods : EncoderCall(t, m)
    \/ \E t \in Threads : EncoderLock(t)
    \/ \E t \in Threads : EncoderWrite(t)
    \/ \E t \in Threads : EncoderReturn(t)

SpecEncoder == Init /\ [][NextEncoder]_vars

\* the owners of renderers and the callers of the facade
NextRenderer ==
    \/ \E i \in Instances : MakeRenderer(i)
    \/ \E i \in Instances : ShareRenderer(i)
    \/ \E i \in Instances : DropRenderer(i)
    \/ \E i \in Instances, b \in BOOLEAN : SetValid(i, b)
    \/ \E i \in Instances \cup {"none"} : SetRenderer(i)
    \/ \E m \in FacadeMethods : Dispatch(m)

SpecRenderer == Init /\ [][NextRenderer]_vars

\* a writer of integers and frame declarations, and the reader of the sink
InitMojo == InitProgram /\ input \in IntegerInputs \cup FrameInputs /\ result = NoResult

NextMojo ==
    \/ WriteInteger
    \/ WriteFrame
    \/ ReadStream

SpecMojo == InitMojo /\ [][NextMojo]_vars

\* the constructor of Frame locating the offsets of code objects
InitLocation == InitProgram /\ input \in LocationInputs(gen) /\ result = NoResult

NextLocation ==
    \/ \E g \in Garbage : InferLocationCall(g)
    \/ \E g \in Garbage : InferLocationAgain(g)

SpecLocation == InitLocation /\ [][NextLocation]_vars

\* the resolver computing the keys of pairs of identities
InitKeys == InitProgram /\ input \in KeyInputs /\ result = NoResult

NextKeys == ComputeKeys

SpecKeys == InitKeys /\ [][NextKeys]_vars

----------------------------------------------------------------------------
(* The stream contract *)

\* C1: every string key that a frame declaration record carries as its
\* filename or its name has been declared by an earlier string declaration
\* record of the stream for that key.
C1_StringsDeclaredBeforeFrames ==
    \A i \in DOMAIN stream :
        stream[i].ev = "frame" =>
            \A k \in {stream[i].filename, stream[i].name} :
                \E j \in 1..(i - 1) : stream[j].ev = "string" /\ stream[j].key = k

\* C2: over the lifetime of the stream no frame key is written in two frame
\* declaration records, whatever is resolved, evicted and resolved again.
C2_FrameDeclaredOnce ==
    \A i, j \in DOMAIN stream :
        (stream[i].ev = "frame" /\ stream[j].ev = "frame" /\ stream[i].key = stream[j].key)
            => i = j

----------------------------------------------------------------------------
(* The resolver boundary *)

\* C3: no resolver entry point (Frame::read, Frame::get of a code object and
\* an offset, Frame::get of a native cursor) lets an error leave the call:
\* every failure comes back as a sentinel Frame.
C3_NoErrorEscapes ==
    last.op \in {"read", "get_code", "get_native"} => last.ret # "throw"

\* the unwinder cannot supply a symbol for the frame at pc: the query for the
\* procedure's information fails, or the query for its name, which the string
\* table makes for a procedure it has no entry for
NoSymbol(pc, pi_ok, name_ok) ==
    StringTable_key_cursor(StringTable_key_pc(string_table, pc).table, pc, pi_ok, name_ok).err

\* C4: for every program counter the cursor may report, resolving a native
\* frame (one the cache does not hold) for which the unwinder cannot supply
\* a symbol returns UNKNOWN_FRAME and throws nothing.
C4_NoSymbolIsUnknownFrame ==
    [][\A pc \in Pcs, pi_ok \in BOOLEAN, name_ok \in BOOLEAN :
          (/\ pc \notin CacheKeys(frame_cache)
           /\ NoSymbol(pc, pi_ok, name_ok)
           /\ FrameGetNative(pc, pi_ok, name_ok))
          => last'.ret = "UNKNOWN_FRAME"]_vars

\* A call that finds its key k in the cache returns the Frame the cache holds
\* under k, reads no location table and no string, writes no record, and
\* leaves the cached keys, the cached Frame and the string table as they were.
IdempotentHit(k) ==
    /\ last'.ret = "cached"
    /\ last'.key = k
    /\ last'.reads = {}
    /\ stream' = stream
    /\ string_table' = string_table
    /\ CacheKeys(frame_cache') = CacheKeys(frame_cache)
    /\ CacheValue(frame_cache', k) = CacheValue(frame_cache, k)

\* C5 as the specification states it: resolving an identity whose key the
\* cache still holds returns the same Frame again, reads no location table
\* and no string, writes no record and leaves the set of cached keys alone.
C5_ResolveIdempotent_AsStated ==
    [][/\ \A id \in Identities, fail \in Failures :
              (/\ last'.op = "get_code"
               /\ Frame_key(id[1], id[2]) \in CacheKeys(frame_cache)
               /\ FrameGet(id[1], id[2], fail))
              => IdempotentHit(Frame_key(id[1], id[2]))
       /\ \A pc \in Pcs, pi_ok \in BOOLEAN, name_ok \in BOOLEAN :
              (/\ last'.op = "get_native"
               /\ pc \in CacheKeys(frame_cache)
               /\ FrameGetNative(pc, pi_ok, name_ok))
              => IdempotentHit(pc)
       /\ \A name \in SyntheticNames :
              (/\ last'.op = "get_name"
               /\ name \in CacheKeys(frame_cache)
               /\ FrameGetName(name))
              => IdempotentHit(name)]_vars

\* C5: resolving an identity whose key the cache still holds returns the
\* same Frame again, reads no location table and no string, writes no record
\* and leaves the set of cached keys alone, provided that the copy of the
\* code object, which Frame::get makes before it asks the cache, succeeds;
\* when that copy fails the call returns INVALID_FRAME, and it still writes
\* no record and leaves the cache and the string table alone.
C5_ResolveIdempotent ==
    [][/\ \A id \in Identities, fail \in Failures :
              (/\ last'.op = "get_code"
               /\ Frame_key(id[1], id[2]) \in CacheKeys(frame_cache)
               /\ FrameGet(id[1], id[2], fail))
              => IF fail # "code"
                 THEN IdempotentHit(Frame_key(id[1], id[2]))
                 ELSE /\ last'.ret = "INVALID_FRAME"
                      /\ last'.reads = {}
                      /\ UNCHANGED <<stream, string_table, frame_cache>>
       /\ \A pc \in Pcs, pi_ok \in BOOLEAN, name_ok \in BOOLEAN :
              (/\ last'.op = "get_native"
               /\ pc \in CacheKeys(frame_cache)
               /\ FrameGetNative(pc, pi_ok, name_ok))
              => IdempotentHit(pc)
       /\ \A name \in SyntheticNames :
              (/\ last'.op = "get_name"
               /\ name \in CacheKeys(frame_cache)
               /\ FrameGetName(name))
              => IdempotentHit(name)]_vars

\* an interpreted identity has just been resolved from the cache, which held
\* it with another key
C5_Witness ==
    /\ last.op = "get_code"
    /\ last.ret = "cached"
    /\ last.reads = {}
    /\ Len(frame_cache.items) >= 2
    /\ Len(stream) = Len(frame_cache.items)

----------------------------------------------------------------------------
(* The frame cache *)

\* C6: a frame cache made with capacity N never holds more than N entries,
\* and no store or lookup changes N.
C6_SizeAtMostCapacity ==
    [][/\ frame_cache'.live => Len(frame_cache'.items) <= frame_cache'.capacity
       /\ (frame_cache.live /\ frame_cache'.live /\ last'.op # "init_frame_cache")
              => frame_cache'.capacity = frame_cache.capacity]_vars

\* a store has just happened in a full cache
C6_Witness ==
    /\ frame_cache.live
    /\ last.ret = "cached"
    /\ last.reads # {}
    /\ Len(frame_cache.items) = frame_cache.capacity
    /\ Len(stream) > frame_cache.capacity
    /\ C2_FrameDeclaredOnce

\* a resolver call stores a new key in a cache that is full
StoresAtCapacity ==
    /\ frame_cache.live
    /\ Len(frame_cache.items) = frame_cache.capacity
    /\ last'.ret = "cached"
    /\ last'.key \notin CacheKeys(frame_cache)

\* C7: a store of a new key in a full cache evicts exactly one entry, the
\* one whose most recent use (its store, or the last lookup that found it) is
\* the oldest; a lookup that finds a key makes it the most recently used.
C7_EvictsLeastRecentlyUsed ==
    [][StoresAtCapacity =>
          /\ uses # <<>>
          /\ CacheKeys(frame_cache') =
                 (CacheKeys(frame_cache) \ {uses[Len(uses)]}) \cup {last'.key}
          /\ Len(frame_cache'.items) = Len(frame_cache.items)]_vars

\* the cache has evicted the second key declared and kept the first, which
\* was declared before it and looked up after it
C7_Witness ==
    /\ frame_cache.live
    /\ frame_cache.capacity >= 2
    /\ Len(stream) = frame_cache.capacity + 1
    /\ C2_FrameDeclaredOnce
    /\ stream[1].key \in CacheKeys(frame_cache)
    /\ stream[2].key \notin CacheKeys(frame_cache)

----------------------------------------------------------------------------
(* The encoder *)

\* out, from its index i on, holds whole events one after the other: the
\* fields of one call of a method, all of them and in order; only the last
\* event may lack its tail, when its call has the lock and is still writing.
RECURSIVE WholeEvents(_, _)
WholeEvents(out, i) ==
    IF i > Len(out) THEN TRUE
    ELSE LET n == Len(Fields(out[i].method))
             k == IF i + n - 1 <= Len(out) THEN n ELSE Len(out) - i + 1
         IN  /\ \A j \in 0..(k - 1) :
                    /\ out[i + j].call = out[i].call
                    /\ out[i + j].method = out[i].method
                    /\ out[i + j].field = j + 1
             /\ IF k = n
                THEN WholeEvents(out, i + n)
                ELSE \E t \in Threads :
                        /\ lock = t
                        /\ event[t].id = out[i].call
                        /\ event[t].at = k + 1

\* C8: every event is written by a call that holds the lock of the encoder,
\* so that whatever the threads do the sink holds whole events one after the
\* other, no field of one inside another; a thread has the lock only inside
\* a call, between taking it and returning, so that a call that waits for the
\* lock waits for a call that is writing its event and will return.
C8_EventsAreWhole ==
    /\ WholeEvents(output, 1)
    /\ \A t \in Threads : (lock = t) <=> (event[t].at >= 1)
    /\ \A t \in Threads :
           (event[t].method # "none" /\ event[t].at = 0) =>
               \/ lock = "free"
               \/ \E u \in Threads \ {t} :
                      lock = u /\ event[u].at \in 1..(Len(Fields(event[u].method)) + 1)

\* a call has written part of its event while the other thread's call waits
\* for the lock
C8_Witness ==
    \E t \in Threads, u \in Threads :
        /\ t # u
        /\ event[t].at >= 2
        /\ event[t].at <= Len(Fields(event[t].method))
        /\ event[u].method # "none"
        /\ event[u].at = 0
        /\ Len(output) >= 1

----------------------------------------------------------------------------
(* The facade *)

\* the renderer the specification names for a call: the instance last given
\* to set_renderer if it still exists and is valid, the default otherwise
ExpectedRenderer ==
    IF lastSet \in Instances /\ owners[lastSet] > 0 /\ valid[lastSet]
    THEN lastSet
    ELSE "default_renderer"

\* C9: every call through the facade goes to one renderer, the instance last
\* given to set_renderer if it still exists and its is_valid() returns true,
\* and the default renderer otherwise, after any sequence of set_renderer,
\* destructions and validity changes; and set_renderer adds no owner to the
\* instance it is given.
C9_DispatchesToActiveRenderer ==
    [][/\ dispatched'.method \in FacadeMethods => dispatched'.target = ExpectedRenderer'
       /\ dispatched'.method = "set_renderer" => (owners' = owners /\ made' = made)]_vars

\* a call went to the default renderer because the instance last set, which
\* still exists, is not valid
C9_Witness ==
    /\ dispatched.method \in FacadeMethods
    /\ dispatched.target = "default_renderer"
    /\ lastSet \in Instances
    /\ owners[lastSet] > 0
    /\ ~valid[lastSet]

----------------------------------------------------------------------------
(* The string table *)

\* C10: interning an address returns the address as the key every time it
\* succeeds, and once the address has an entry the call copies nothing from
\* foreign memory, succeeds and leaves the table as it is.
C10_InternOnceReadOnce ==
    [][\A a \in StrAddrs, readable \in BOOLEAN, ub \in LongOutcomes :
          InternString(a, readable, ub) =>
              /\ last'.ret = "key" => last'.key = a /\ a \in DOMAIN string_table'
              /\ a \in DOMAIN string_table =>
                     /\ last'.ret = "key"
                     /\ last'.reads = {}
                     /\ string_table' = string_table]_vars

\* an address that had an entry has been interned again, and nothing was read
C10_Witness ==
    /\ last.op = "intern"
    /\ last.ret = "key"
    /\ last.reads = {}
    /\ last.key \in StrAddrs

----------------------------------------------------------------------------
(* The string table *)

\* a text object whose declared length is negative or above the ceiling
OverCeiling(a) ==
    StrObj(a).type = "unicode" /\ (StrObj(a).length < 0 \/ StrObj(a).length > MaxStrLen)

\* C11: interning a foreign text object whose declared length is negative
\* or exceeds the ceiling, at an address that has no entry, fails with the
\* string-resolution error and leaves the table with exactly the keys and
\* the texts it had before the call.
C11_OversizeInternFails ==
    [][(last'.op = "intern" /\ last # last' /\ OverCeiling(last'.arg)
            /\ last'.arg \notin DOMAIN string_table)
        => (last'.ret = "throw" /\ string_table' = string_table)]_vars

\* an intern of the object one byte over the ceiling has failed on a table
\* that holds interned strings
C11_Witness ==
    /\ last.op = "intern" /\ last.arg = 46 /\ last.ret = "throw"
    /\ {41, 47} \subseteq DOMAIN string_table

\* C12: after any sequence of calls of the three interning overloads, those
\* whose arguments map to one numeric key included, every key that has a
\* text keeps it: lookup returns the text of the first inserter, and the
\* reserved keys INVALID and UNKNOWN keep their literal texts.
C12_FirstWriterWins ==
    [][/\ \A k \in DOMAIN string_table :
              StringTable_lookup(string_table', k) = StringTable_lookup(string_table, k)
       /\ StringTable_lookup(string_table', StringTable_INVALID).text = "<invalid>"
       /\ StringTable_lookup(string_table', StringTable_UNKNOWN).text = "<unknown>"]_vars

\* a program counter was interned whose numeric key a native symbol had
\* taken first, after a string object and the program counter at its
\* address were interned
C12_Witness ==
    /\ last.op = "intern_pc" /\ last.arg = 50 /\ last.key = 50
    /\ StringTable_lookup(string_table, 50).text = "foo()"
    /\ StringTable_lookup(string_table, 41).text \in {"f", NativeAt(41)}

----------------------------------------------------------------------------
(* The cached Frames and the sentinels *)

\* what identifies a Frame and says where it is
FrameFields(f) == <<f.cache_key, f.filename, f.name, f.location>>

\* C13: a Frame that is in the cache keeps its cache_key, filename, name
\* and location through every later resolve and read, for as long as the
\* cache owns it; a repeat lookup may write its is_entry and nothing else.
C13_CachedFrameImmutable ==
    [][\A k \in CacheKeys(frame_cache) \cap CacheKeys(frame_cache') :
            FrameFields(CacheValue(frame_cache', k)) = FrameFields(CacheValue(frame_cache, k))]_vars

\* Frame::read found its Frame in the cache and set its is_entry
C13_Witness ==
    /\ last.op = "read" /\ last.ret = "cached" /\ last.reads = {}
    /\ CacheValue(frame_cache, last.key).is_entry

\* C14: no resolver operation stores INVALID_FRAME or UNKNOWN_FRAME in the
\* cache, and none writes a field of either, is_entry included: a call that
\* returns a sentinel leaves the keys of the cache as they were.
C14_SentinelsUntouched ==
    [][/\ sentinel' = sentinel
       /\ sentinel'.INVALID_FRAME = Frame(0, 0, StringTable_INVALID, Location0)
       /\ sentinel'.UNKNOWN_FRAME = Frame(0, 0, StringTable_UNKNOWN, Location0)
       /\ (last # last' /\ last'.ret \in DOMAIN sentinel)
            => CacheKeys(frame_cache') = CacheKeys(frame_cache)
       /\ \A i \in DOMAIN frame_cache'.items :
            FrameFields(frame_cache'.items[i].value) \notin
                {FrameFields(sentinel'.INVALID_FRAME), FrameFields(sentinel'.UNKNOWN_FRAME)}]_vars

\* Frame::read got INVALID_FRAME from Frame::get in the build that
\* assigns is_entry, with a Frame in the cache
C14_Witness ==
    /\ gen = "varlen" /\ last.op = "read" /\ last.ret = "INVALID_FRAME"
    /\ frame_cache.live /\ frame_cache.items # <<>>

----------------------------------------------------------------------------
(* The encodings *)

\* C15: for every integer n of [-2^40, 2^40], zero and the values at which
\* the encoding grows by a byte included, decoding the bytes integer(n)
\* wrote yields n and consumes them all, and the last byte is the only one
\* without the continuation bit.
C15_VarintRoundTrip ==
    (input.fn = "integer" /\ result.done /\ result.read) =>
        /\ result.decoded.value = input.n
        /\ ~result.decoded.short
        /\ result.decoded.next = Len(result.bytes) + 1
        /\ \A i \in DOMAIN result.bytes :
                (result.bytes[i] < 128) <=> (i = Len(result.bytes))

\* -2^40, six bytes long, was written and read back
C15_Witness ==
    /\ input.fn = "integer" /\ input.n = Wide(TRUE, PowerOfTwo(40))
    /\ result.done /\ result.read
    /\ Len(result.bytes) = 6

\* a key under the mask of ref()
Masked(value) == Normal([i \in 1..(IF Len(value) < 32 THEN Len(value) ELSE 32) |-> value[i]])

\* C16: decoding the record frame(key, filename, name, line, line_end,
\* column, column_end) wrote recovers key, filename and name masked to
\* their low 32 bits and the four location integers as given, and the
\* string_ref(key) that follows decodes to the same masked key.
C16_FrameRoundTrip ==
    (input.fn = "frame" /\ result.done /\ result.read) =>
        /\ Len(result.decoded) = 2
        /\ result.decoded[1].tag = "MOJO_FRAME"
        /\ result.decoded[1].values =
                <<Wide(FALSE, Masked(input.key)), Wide(FALSE, Masked(input.filename)),
                  Wide(FALSE, Masked(input.name)), input.location[1], input.location[2],
                  input.location[3], input.location[4]>>
        /\ result.decoded[2].tag = "MOJO_STRING_REF"
        /\ result.decoded[2].values = <<result.decoded[1].values[1]>>

\* a frame whose key has bits above the mask, with a negative location
\* field, was written and read back
C16_Witness ==
    /\ input.fn = "frame" /\ result.done /\ result.read
    /\ Len(input.key) > 32 /\ Masked(input.key) = <<1, 0, 1>>
    /\ input.location[1].neg

----------------------------------------------------------------------------
(* The location tables *)

Located == input.fn = "infer_location" /\ result.done

LineOnly(lineno) == [line |-> lineno, line_end |-> lineno, column |-> 0, column_end |-> 0]

\* C17 as the scenario has it: the one-byte table [0x00] of the
\* variable-length generation, queried at offset 0, decodes without a fault
\* to the first line of the code object with columns 0.
C17_SingleByteTable_AsStated ==
    (Located /\ gen = "varlen" /\ input.table = <<0>> /\ input.lasti = 0) =>
        (~result.r.err /\ result.r.location = LineOnly(input.first))

\* C17: in the variable-length generation, at offset 0, the one-byte table
\* [0x00] is an entry of kind 0 without its second byte and decoding it
\* throws LocationError; the one-byte table [0xF8], a single no-op entry,
\* decodes without a fault to the first line of the code object with
\* columns 0.
C17_SingleByteTable ==
    (Located /\ gen = "varlen" /\ input.lasti = 0) =>
        /\ input.table = <<0>> => result.r.err
        /\ input.table = <<248>> =>
                (~result.r.err /\ result.r.location = LineOnly(input.first))

\* the table [0x00] was decoded at offset 0
C17_Witness ==
    Located /\ gen = "varlen" /\ input.table = <<0>> /\ input.lasti = 0

\* C18 as the scenario has it: the legacy table [0x02, 0x01] queried at
\* offset 0 yields the first line plus one.
C18_LegacyFirstPair_AsStated ==
    (Located /\ gen = "legacy" /\ input.table = <<2, 1>> /\ input.lasti = 0) =>
        (~result.r.err /\ result.r.location.line = input.first + 1)

\* C18: the legacy table [0x02, 0x01] yields the first line of the code
\* object at the offsets 0 and 1, which precede the pair's bytecode delta,
\* and the first line plus one from offset 2 on.
C18_LegacyFirstPair ==
    (Located /\ gen = "legacy" /\ input.table = <<2, 1>>) =>
        /\ ~result.r.err
        /\ result.r.location =
                LineOnly(input.first + (IF input.lasti >= 2 THEN 1 ELSE 0))

\* the table [0x02, 0x01] was decoded at offset 0 and gave the first line
C18_Witness ==
    /\ Located /\ gen = "legacy" /\ input.table = <<2, 1>> /\ input.lasti = 0
    /\ result.r.location.line = input.first

\* the indices of the bytes that start an entry of a variable-length table
EntryStarts(tbl) == {i \in DOMAIN tbl : tbl[i] >= 128}

EntryKind(tbl, i) == (tbl[i] \div 8) % 16

\* the last of a non-empty set of indices
Last(set) == CHOOSE i \in set : \A j \in set : j <= i

\* the bytecode units a table covers: the lengths of its entries, or the
\* bytecode deltas of its pairs up to the end marker of the 3.10 generation
RECURSIVE PairUnits(_, _, _)
PairUnits(g, tbl, i) ==
    IF i > Len(tbl) \/ (g = "delta" /\ tbl[i] = 255) THEN 0
    ELSE tbl[i] + PairUnits(g, tbl, i + 2)

RECURSIVE EntryUnits(_, _)
EntryUnits(tbl, starts) ==
    IF starts = {} THEN 0
    ELSE (tbl[Last(starts)] % 8) + 1 + EntryUnits(tbl, starts \ {Last(starts)})

\* the queried offset is at or past the last bytecode delta of the table
PastTheEnd ==
    CASE gen = "varlen" -> input.lasti >= EntryUnits(input.table, EntryStarts(input.table))
      [] gen = "delta"  -> 2 * input.lasti >= PairUnits(gen, input.table, 1)
      [] OTHER          -> input.lasti >= PairUnits(gen, input.table, 1)

\* the line the pairs of a table add up to
RECURSIVE PairLines(_, _, _)
PairLines(g, tbl, i) ==
    IF i > Len(tbl) \/ (g = "delta" /\ tbl[i] = 255) THEN 0
    ELSE (IF tbl[i + 1] > 128 THEN tbl[i + 1] - 256
          ELSE IF tbl[i + 1] = 128 THEN (IF g = "delta" THEN 0 ELSE -128)
          ELSE tbl[i + 1])
         + PairLines(g, tbl, i + 2)

\* the range the last entry of the table records
LastEntryRange ==
    IF gen = "varlen"
    THEN DecodeTable(gen, input.table, input.first, input.lasti, 0).loc
    ELSE LineOnly(input.first + PairLines(gen, input.table, 1))

\* C19: in every generation, decoding a well-formed table at an offset at or
\* past its last bytecode delta yields the line and column range that the
\* last entry of the table records, and decoding again at the same offset
\* yields the same.
C19_LastEntryRange ==
    (Located /\ result.again /\ ~result.r.err /\ ~result.r.oob /\ PastTheEnd
        /\ (gen = "varlen" => EntryKind(input.table, Last(EntryStarts(input.table))) # 15))
    => (result.r.location = LastEntryRange /\ result.second = result.r)

\* the entry that covers the queried offset, from the entry at i with bc
\* units before it
RECURSIVE Covering(_, _, _, _)
Covering(tbl, lasti, i, bc) ==
    IF bc + (tbl[i] % 8) + 1 > lasti \/ i = Last(EntryStarts(tbl)) THEN i
    ELSE Covering(tbl, lasti, CHOOSE j \in EntryStarts(tbl) :
                                  j > i /\ \A k \in EntryStarts(tbl) : k > i => j <= k,
                  bc + (tbl[i] % 8) + 1)

ShortColumn(kind, byte) == 1 + kind * 8 + ((byte \div 16) % 8)

\* what the claim expects of the entry at i, of kind k, in the location l
ColumnsOf(tbl, i, k, l, loop) ==
    /\ k \in {10, 11, 12} => (l.column = tbl[i + 1] + 1 /\ l.column_end = tbl[i + 2] + 1)
    /\ k \in 0..9 => /\ l.column = ShortColumn(k, tbl[i + 1])
                     /\ l.column_end = l.column + (tbl[i + 1] % 16)
    /\ k = 14 => (l.line_end = loop.line_end /\ l.column = loop.column
                    /\ l.column_end = loop.column_end)
    /\ k = 13 => (l.column = 0 /\ l.column_end = 0)

\* C20: in the variable-length generation, when the entry that covers the
\* queried offset carries column data (the long form, the kinds 10 to 12,
\* the short form), the location of the Frame has the columns of the entry,
\* one more than the bytes of the table, and for the long form its end
\* line; an entry of kind 13 alone gives columns 0.
C20_ColumnsReported ==
    (Located /\ gen = "varlen" /\ ~result.r.err) =>
        ColumnsOf(input.table, Covering(input.table, input.lasti, 1, 0),
                  EntryKind(input.table, Covering(input.table, input.lasti, 1, 0)),
                  result.r.location,
                  DecodeTable(gen, input.table, input.first, input.lasti, 0).loc)

\* C21: in every generation, for every table of declared size len, those of
\* odd length of the pair generations and those that end inside a varint
\* included, decoding at any offset reads no table byte at an index >= len.
C21_NoReadPastTheTable ==
    Located => ~result.r.oob

\* the bytes of the entry that starts at i, after its first
EntryRest(tbl, i) ==
    SubSeq(tbl, i + 1,
           IF \E j \in EntryStarts(tbl) : j > i
           THEN (CHOOSE j \in EntryStarts(tbl) :
                    j > i /\ \A k \in EntryStarts(tbl) : k > i => j <= k) - 1
           ELSE Len(tbl))

\* the varints that end within a sequence of bytes: one per byte that has
\* no continuation bit
Varints(bytes) == Cardinality({j \in DOMAIN bytes : (bytes[j] \div 64) % 2 = 0})

\* the entry at i needs trailing bytes that the table does not have
Truncated(tbl, i) ==
    LET k == EntryKind(tbl, i)
    IN  CASE k = 15 -> FALSE
          [] k = 14 -> Varints(EntryRest(tbl, i)) < 4
          [] k = 13 -> Varints(EntryRest(tbl, i)) < 1
          [] k \in {10, 11, 12} -> Len(EntryRest(tbl, i)) < 2
          [] OTHER -> Len(EntryRest(tbl, i)) < 1

\* the loop reaches the entry at i: the entries before it do not take the
\* bytecode offset past the queried one
Reached(tbl, lasti, i) ==
    EntryUnits(tbl, {j \in EntryStarts(tbl) : j < i}) <= lasti

\* C22: in the variable-length generation, an entry that needs trailing
\* bytes beyond the end of the table (the varints of the kinds 13 and 14,
\* the two column bytes of the kinds 10 to 12, the second byte of the short
\* form) makes decoding fail with LocationError when the loop reaches it.
C22_TruncatedEntryFaults ==
    (Located /\ gen = "varlen"
        /\ \E i \in EntryStarts(input.table) :
                Reached(input.table, input.lasti, i) /\ Truncated(input.table, i))
    => result.r.err

----------------------------------------------------------------------------
(* The resolver *)

\* the keys of the cache, the most recently used first
RecencyOrder(cache) == [i \in DOMAIN cache.items |-> cache.items[i].key]

\* C23: a resolve that misses the cache either succeeds, and then exactly
\* one frame declaration record, for the new key, is written and the Frame
\* is in the cache under that key, or fails, and then a sentinel is returned,
\* no record is written and the keys of the cache and their recency order
\* are as they were.
C23_MissStoresAndDeclaresOnce ==
    [][(last # last' /\ last'.op \in {"get_code", "read", "get_native", "get_name"}) =>
        /\ (last'.ret = "cached" /\ last'.key \notin CacheKeys(frame_cache)) =>
                /\ Len(stream') = Len(stream) + 1
                /\ SubSeq(stream', 1, Len(stream)) = stream
                /\ stream'[Len(stream')].ev = "frame"
                /\ stream'[Len(stream')].key = last'.key
                /\ last'.key \in CacheKeys(frame_cache')
                /\ CacheValue(frame_cache', last'.key).cache_key = last'.key
        /\ last'.ret \in {"INVALID_FRAME", "UNKNOWN_FRAME"} =>
                /\ stream' = stream
                /\ RecencyOrder(frame_cache') = RecencyOrder(frame_cache)]_vars

\* the constructor of a new Frame failed after it had read foreign memory,
\* with declared Frames in the cache
C23_Witness ==
    /\ last.op = "get_code" /\ last.ret = "INVALID_FRAME" /\ last.reads # {}
    /\ frame_cache.live /\ Len(frame_cache.items) >= 1
    /\ Len(stream) >= Len(frame_cache.items)

\* C24: when Frame::read resolves the frame to INVALID_FRAME it reports a
\* null previous-frame address, so that a walk along the previous-frame
\* addresses stops there; when it resolves it to a Frame of the cache it
\* reports the previous-frame address of the snapshot.
C24_InvalidFrameEndsTheWalk ==
    last.op = "read" =>
        /\ last.ret = "INVALID_FRAME" => last.prev = 0
        /\ last.ret = "cached" => last.prev \in PrevAddrs

\* Frame::read returned INVALID_FRAME for a snapshot that has a previous
\* frame
C24_Witness ==
    last.op = "read" /\ last.ret = "INVALID_FRAME" /\ last.prev = 0

\* C25: distinct identities - (code address, bytecode offset) pairs, the
\* offset -1 and offsets of 2^16 and more included, native program counters
\* and synthetic names - have distinct FrameKeys, so that a cache hit never
\* returns the Frame of another identity.
C25_DistinctIdentitiesDistinctKeys ==
    (input.fn = "key" /\ result.done /\ input.a # input.b) => result.ka # result.kb

\* C26: after a native frame is resolved, lookup of its name is the
\* demangled name of the symbol the unwinder gave and lookup of its filename
\* is the native@<pc> placeholder, whatever the program counter and the
\* start of the symbol are, equal ones included.
C26_NativeFrameTexts ==
    (last.op = "get_native" /\ last.ret = "cached") =>
        /\ StringTable_lookup(string_table, CacheValue(frame_cache, last.key).name).text
                = Demangle(proc_name(last.key)).name
        /\ StringTable_lookup(string_table, CacheValue(frame_cache, last.key).filename).text
                = NativeAt(last.key)

\* lookup of the filename and of the name of a Frame succeeds
Renderable(table, f) ==
    /\ ~StringTable_lookup(table, f.filename).err
    /\ ~StringTable_lookup(table, f.name).err

\* the Frames of the cache that were resolved for a code object or for a
\* native cursor: the synthetic ones have no filename
ResolvedFrames(cache) ==
    {cache.items[i].value : i \in {j \in DOMAIN cache.items : cache.items[j].value.filename # 0}}

\* C27: the filename and the name of every Frame resolved for a (code,
\* offset) identity or a native cursor, and of both sentinels, are keys of
\* the string table from then on: no key ever leaves the table, lookup on
\* them does not fail, and the names of the sentinels look up to
\* "<invalid>" and "<unknown>".
C27_FrameStringsPresent ==
    [][/\ DOMAIN string_table \subseteq DOMAIN string_table'
       /\ \A f \in ResolvedFrames(frame_cache') : Renderable(string_table', f)
       /\ Renderable(string_table', sentinel'.INVALID_FRAME)
       /\ Renderable(string_table', sentinel'.UNKNOWN_FRAME)
       /\ StringTable_lookup(string_table', sentinel'.INVALID_FRAME.name).text = "<invalid>"
       /\ StringTable_lookup(string_table', sentinel'.UNKNOWN_FRAME.name).text = "<unknown>"]_vars

\* the cache holds a Frame of a code object and a native Frame, and the last
\* call returned a sentinel
C27_Witness ==
    /\ last.ret \in DOMAIN sentinel
    /\ \E f \in ResolvedFrames(frame_cache) : f.filename = 40
    /\ \E f \in ResolvedFrames(frame_cache) : f.filename = 50

====
